---- MODULE Spec2Model ----
(***************************************************************************)
(* Model of the Gemini streaming route (src/route.ts): one inbound request *)
(* (POST or GET), the TransformStream writer it creates, the Live session  *)
(* it connects, and the four callback handlers that write SSE frames.      *)
(*                                                                         *)
(* Stream semantics are those of the WHATWG TransformStream the route      *)
(* creates with default strategies: writer.write() puts the chunk on the   *)
(* writable queue at the moment of the call (or rejects when the stream is *)
(* closed or a close is queued); a queued chunk reaches the readable side  *)
(* only when the consumer of the response body reads; the promise of a     *)
(* write settles, and the awaiting handler resumes, when its own chunk has *)
(* reached the readable side; writer.close() queues the close behind the   *)
(* chunks already queued.                                                  *)
(***************************************************************************)
EXTENDS Integers, Sequences, FiniteSets, TLC

\* Number of callbacks the remote invokes during one request.
MaxCalls == 4

\* Number of direct invocations of closeWith made by SpecFinalize.
MaxFinalize == 1

\* Longest `input` list of a request.
MaxTurns == 2

Methods == {"POST", "GET"}

\* process.env as createGenAI reads it: each variable is set or not.
Envs ==
  { [useVertex |-> FALSE, project |-> FALSE, location |-> FALSE, apiKey |-> TRUE],
    [useVertex |-> FALSE, project |-> FALSE, location |-> FALSE, apiKey |-> FALSE],
    [useVertex |-> TRUE,  project |-> TRUE,  location |-> TRUE,  apiKey |-> FALSE],
    [useVertex |-> TRUE,  project |-> TRUE,  location |-> FALSE, apiKey |-> TRUE],
    [useVertex |-> FALSE, project |-> TRUE,  location |-> TRUE,  apiKey |-> FALSE] }

\* LiveServerMessage values the remote delivers (serverContent of each).
Messages ==
  { [text |-> "hi", turnComplete |-> FALSE],
    [text |-> "",   turnComplete |-> TRUE] }

ErrorMessages == {"boom"}
CloseReasons  == {"done"}

VARIABLES
  method,       \* which handler serves the request
  env,          \* process.env
  req,          \* the inbound request: POST body or GET query
  turns,        \* `const turns`, << >> until computed
  model,        \* `const model`, passed to ai.live.connect
  sentTurns,    \* the turns passed to session.sendClientContent
  body,         \* body of the response returned: "" while none, the error
                \* message of a JSON error body, "stream" for stream.readable
  hpc,          \* position of the request handler
  status,       \* HTTP status of the response returned, 0 while none
  session,      \* TRUE once `const session` is assigned (connect resolved)
  sent,         \* number of sendClientContent calls
  listener,     \* TRUE once the abort listener is registered
  aborted,      \* TRUE once req.signal has fired
  closeCalls,   \* number of session.close() invocations by the bridge
  rphase,       \* remote side of the session: idle, connecting, open, closed
  wstate,       \* writable side: none, writable, closed
  closeQueued,  \* writer.close() was called and is queued or in flight
  queue,        \* chunks accepted by writer.write(), not yet on the readable side
  frames,       \* chunks that reached the readable side, in order
  handlers      \* one record per callback invocation, in arrival order:
                \* kind, tc (the message carried turnComplete), ev (the event
                \* written first), pc (awaitWrite, awaitEnd, awaitClose, done,
                \* rejected), at (frames read by the client when it was
                \* invoked), early (invoked before `session` was assigned)

VARIABLES
  variant,      \* which copy of the GET handler serves a health request
  health,       \* url.searchParams.get("health"), "" when the parameter is absent
  cors,         \* process.env as corsHeaders reads it
  origin,       \* req.headers.get("origin"), "" when the header is absent
  headers,      \* headers of the response returned
  evt,          \* an event value handed to sseEvent
  wire,         \* the text sseEvent returned for it, << >> before
  decoded,      \* what the reader of the text decoded, << >> before
  calls         \* how many times the handler called new TransformStream()
                \* and ai.live.connect()

reqVars == << req, turns, model, sentTurns >>
cfgVars == << variant, health, cors, origin >>
encVars == << evt, wire, decoded >>

vars == << method, env, req, turns, model, sentTurns, body, hpc, status, session, sent, listener, aborted,
           closeCalls, rphase, wstate, closeQueued, queue, frames, handlers,
           variant, health, cors, origin, headers, evt, wire, decoded, calls >>

\* ---------------------------------------------------------------------------
\* Pure helpers

\* sseEvent / sseEventLocal: `data: ${JSON.stringify(data)}\n\n`
sseEvent(data) == [prefix |-> "data: ", json |-> data, term |-> "\n\n"]

\* createGenAI returns a client (TRUE) or throws (FALSE).
createGenAI_NoKeyCheck(e) == e.useVertex => (e.project /\ e.location)
createGenAI(e) ==
  IF e.useVertex
    THEN e.project /\ e.location
    ELSE e.apiKey

\* process.env variable by variable; "" stands for a variable that is unset
\* or empty, both falsy.
ProcessEnvs ==
  [GOOGLE_GENAI_USE_VERTEXAI : {"", "true", "1"},
   GOOGLE_CLOUD_PROJECT : {"", "my-project"},
   GOOGLE_CLOUD_LOCATION : {"", "us-central1"},
   GOOGLE_API_KEY : {"", "key-1"},
   GEMINI_API_KEY : {"", "key-2"}]

\* What createGenAI reads of it:
\*   useVertex = GOOGLE_GENAI_USE_VERTEXAI === "true"
\*   apiKey = GOOGLE_API_KEY || GEMINI_API_KEY
readEnv_GoogleKeyOnly(p) ==
  [useVertex |-> p.GOOGLE_GENAI_USE_VERTEXAI = "true",
   project |-> p.GOOGLE_CLOUD_PROJECT # "",
   location |-> p.GOOGLE_CLOUD_LOCATION # "",
   apiKey |-> p.GOOGLE_API_KEY # "",
   raw |-> p]
readEnv(p) ==
  [useVertex |-> p.GOOGLE_GENAI_USE_VERTEXAI = "true",
   project |-> p.GOOGLE_CLOUD_PROJECT # "",
   location |-> p.GOOGLE_CLOUD_LOCATION # "",
   apiKey |-> p.GOOGLE_API_KEY # "" \/ p.GEMINI_API_KEY # "",
   raw |-> p]

\* The message of the Error createGenAI throws.
VertexMessage ==
  "Vertex AI mode enabled (GOOGLE_GENAI_USE_VERTEXAI=true) but GOOGLE_CLOUD_PROJECT or GOOGLE_CLOUD_LOCATION is missing."
MissingKeyMessage == "Missing GOOGLE_API_KEY or GEMINI_API_KEY environment variable."
createGenAIError(e) == IF e.useVertex THEN VertexMessage ELSE MissingKeyMessage

\* Messages of the errors the outer catch may see.
DestructureMessage == "Cannot destructure property 'input' of null"
ConnectErrors == {"connect failed"}
SendErrors == {"send failed"}

\* new Response(JSON.stringify({ error: msg }), { status: 500 })
errorResponse(msg) == [status |-> 500, body |-> msg]

\* new Response(stream.readable, { status: 200 })
streamResponse == [status |-> 200, body |-> "stream"]

\* ---------------------------------------------------------------------------
\* CORS headers

OriginA == "https://app.example.com"
OriginB == "https://other.example.com"

\* req.headers.get("origin"): "" stands for no header.
Origins == {"", OriginA, OriginB}

\* CORS_ALLOW_ORIGINS: unset, or a text that split(",") cuts into parts; each
\* part is its text without surrounding blanks and whether it had any.
Part(text, padded) == [text |-> text, padded |-> padded]
Parts ==
  { Part("", FALSE), Part("", TRUE), Part("*", FALSE), Part("*", TRUE),
    Part(OriginA, FALSE), Part(OriginA, TRUE), Part(OriginB, FALSE) }
Unset == [set |-> FALSE, parts |-> << >>]
Raw(parts) == [set |-> TRUE, parts |-> parts]
AllowOrigins ==
  {Unset} \cup { Raw(p) : p \in [1..1 -> Parts] \cup [1..2 -> Parts] }

\* CORS_ALLOW_CREDENTIALS: "" stands for unset.
AllowCredentials == {"", "true", "1"}

CorsEnvs ==
  { [origins |-> o, credentials |-> c] : o \in AllowOrigins, c \in AllowCredentials }

\* The environment of the CORS tests: CORS_ALLOW_ORIGINS is the origin.
TestCors == [origins |-> Raw(<< Part(OriginA, FALSE) >>), credentials |-> ""]

\* s.trim()
trim(p) == p.text

\* .map((s) => s.trim()).filter(Boolean)
RECURSIVE trimmedParts(_)
trimmedParts(parts) ==
  IF parts = << >>
    THEN << >>
    ELSE IF trim(Head(parts)) = ""
      THEN trimmedParts(Tail(parts))
      ELSE << trim(Head(parts)) >> \o trimmedParts(Tail(parts))

\* parseAllowedOrigins: "*" (wild) or the list of allowed origins.  The
\* trimmed text is empty when its only part is blank, and "*" when its only
\* part is "*".
Wildcard == [wild |-> TRUE, list |-> << >>]
parseAllowedOrigins(raw) ==
  IF ~raw.set \/ (Len(raw.parts) = 1 /\ trim(raw.parts[1]) \in {"", "*"})
    THEN Wildcard
    ELSE IF trimmedParts(raw.parts) = << >>
      THEN Wildcard
      ELSE [wild |-> FALSE, list |-> trimmedParts(raw.parts)]

\* allowList.includes(origin)
includes(list, o) == \E i \in DOMAIN list : list[i] = o

\* A Headers object: "" stands for a header that is not set.
NoHeaders ==
  [allowOrigin |-> "", vary |-> "", allowCredentials |-> "",
   allowMethods |-> "", contentType |-> ""]

Json == "application/json"
EventStream == "text/event-stream; charset=utf-8"

\* corsHeaders(origin)
corsHeaders_NoAllowList(c, o) ==
  [NoHeaders EXCEPT !.allowMethods = "GET,POST,OPTIONS", !.allowOrigin = "*"]
corsHeaders(c, o) ==
  LET allowList == parseAllowedOrigins(c.origins)
      allowCredentials == c.credentials = "true"
      isAllowed == o # "" /\ includes(allowList.list, o)
  IN [allowMethods |-> "GET,POST,OPTIONS",
      allowOrigin |-> IF allowList.wild THEN "*" ELSE IF isAllowed THEN o ELSE "",
      vary |-> IF ~allowList.wild /\ isAllowed THEN "Origin" ELSE "",
      allowCredentials |-> IF allowCredentials THEN "true" ELSE "",
      contentType |-> ""]

\* headers.set("content-type", t)
withContentType(h, t) == [h EXCEPT !.contentType = t]

\* POST, createGenAI threw: headers: { "content-type": "application/json" }
initErrorHeaders(m, c, o) ==
  IF m = "POST"
    THEN withContentType(NoHeaders, Json)
    ELSE withContentType(corsHeaders(c, o), Json)

\* The outer catch of POST and GET.
errorHeaders(c, o) == withContentType(corsHeaders(c, o), Json)

\* The streaming response.
streamHeaders(c, o) == withContentType(corsHeaders(c, o), EventStream)

\* ---------------------------------------------------------------------------
\* GET ?health=1

HealthParams == {"", "1"}
Variants == {"probing", "configOnly"}

\* url.searchParams.get("health") === "1", read by GET only.
isHealthCheck_Never(m, h) == FALSE
isHealthCheck(m, h) == m = "GET" /\ h = "1"

noContent == [status |-> 204, body |-> ""]

\* What the probe of the first copy can end in besides resp.ok: a response
\* that is not ok, or fetch throwing.
ProbeErrors == {"Google API health failed: 403", "fetch failed"}

\* The responses the health branch can return once createGenAI succeeded.
\* The first copy re-reads the environment and, in API-key mode, fetches the
\* model list; the second copy answers 204 at once.
healthCheck(v, e) ==
  IF v = "configOnly"
    THEN {noContent}
    ELSE IF e.useVertex
      THEN IF ~(e.project /\ e.location)
             THEN {errorResponse("Missing GOOGLE_CLOUD_PROJECT or GOOGLE_CLOUD_LOCATION")}
             ELSE {noContent}
      ELSE IF ~e.apiKey
        THEN {errorResponse("Missing GOOGLE_API_KEY or GEMINI_API_KEY")}
        ELSE {noContent} \cup { errorResponse(msg) : msg \in ProbeErrors }

\* ---------------------------------------------------------------------------
\* Request values.  A JSON value is a record with its type tag; a list keeps
\* its elements in `items`.

Absent == [tag |-> "absent", str |-> ""]
Null == [tag |-> "null", str |-> ""]
Str(s) == [tag |-> "string", str |-> s]
Num == [tag |-> "number", str |-> "7"]
Obj == [tag |-> "object", str |-> ""]

Scalar(v) == [tag |-> v.tag, str |-> v.str, items |-> << >>]
List(items) == [tag |-> "list", str |-> "", items |-> items]

Strs == {"hello", "bye", ""}
StrElems == { Str(x) : x \in Strs }
Elems == StrElems \cup {Num}

SeqsUpTo(S, n) == UNION { [1..k -> S] : k \in 0..n }

\* `input` of a POST body: absent, null, a scalar, an object or a list.
PostInputs ==
  { Scalar(v) : v \in {Absent, Null, Num, Obj} \cup StrElems }
    \cup { List(l) : l \in SeqsUpTo(Elems, MaxTurns) }

\* url.searchParams.getAll("input"): a list of strings, empty when no
\* `input` parameter is given.
GetInputs == { List(l) : l \in SeqsUpTo(StrElems, MaxTurns) }

PostModels == {Absent, Null, Str("m1"), Str("")}
GetModels == {Absent, Str("m1"), Str("")}

\* A POST request: what req.json() gives (an object, null, or a rejection
\* for an unparsable body, which the catch maps to {}) and the fields of the
\* object.  A GET request: its query parameters.
PostRequests ==
  { [parsed |-> "object", input |-> i, model |-> m] : i \in PostInputs, m \in PostModels }
    \cup { [parsed |-> k, input |-> Scalar(Absent), model |-> Absent] : k \in {"invalid", "null"} }

GetRequests ==
  { [parsed |-> "query", input |-> i, model |-> m] : i \in GetInputs, m \in GetModels }

Requests(m) == IF m = "POST" THEN PostRequests ELSE GetRequests

\* The request of the repository's tests, { input: "hello" }, and a POST
\* whose body is the JSON text null.
TestRequests(m) ==
  IF m = "POST"
    THEN { [parsed |-> "object", input |-> Scalar(Str("hello")), model |-> Absent],
           [parsed |-> "null", input |-> Scalar(Absent), model |-> Absent] }
    ELSE { [parsed |-> "query", input |-> List(<< Str("hello") >>), model |-> Absent] }

DefaultModel == "models/gemini-2.5-flash-preview-native-audio-dialog"
DefaultTurns == << Str("Hello!") >>

\* POST: const { input, model: modelOverride } = await req.json().catch(() => ({}))
\* The destructuring throws on null.
postBodyThrows(r) == r.parsed = "null"
postInput(r) == IF r.parsed = "object" THEN r.input ELSE Scalar(Absent)
postModelOverride(r) == IF r.parsed = "object" THEN r.model ELSE Absent

\* POST: Array.isArray(input) ? input
\*       : typeof input === "string" && input.length > 0 ? [input] : ["Hello!"]
postTurns_NoArray(input) ==
  IF input.tag = "string" /\ input.str # "" THEN << Str(input.str) >> ELSE DefaultTurns
postTurns(input) ==
  IF input.tag = "list"
    THEN input.items
    ELSE IF input.tag = "string" /\ input.str # ""
      THEN << Str(input.str) >>
      ELSE DefaultTurns

\* GET: input.length > 0 ? input : ["Hello!"]
getTurns(input) == IF Len(input.items) > 0 THEN input.items ELSE DefaultTurns

\* modelOverride ?? DefaultModel (GET maps a missing parameter to undefined)
modelOf(override) ==
  IF override.tag \in {"absent", "null"} THEN Str(DefaultModel) ELSE override

normalizeTurns(m, r) ==
  IF m = "POST" THEN postTurns(postInput(r)) ELSE getTurns(r.input)

normalizeModel(m, r) ==
  IF m = "POST" THEN modelOf(postModelOverride(r)) ELSE modelOf(r.model)

\* message.serverContent?.turnComplete
turnComplete(m) == m.turnComplete

\* writer.write(): accepted unless the stream is closed or a close is queued.
WriterAccepts_IgnoresClosed(ws, cq) == ws \in {"writable", "closed"} /\ ~cq
WriterAccepts(ws, cq) == ws = "writable" /\ ~cq

\* new TransformStream(): the default writable strategy has highWaterMark 1.
WritableHighWaterMark == 1

\* The writable queue is first-in first-out.
WriterEnqueue_Front(q, chunk) == << chunk >> \o q
WriterEnqueue(q, chunk) == Append(q, chunk)

\* The event a callback handler writes first.
OpenEvent == [type |-> "open"]
MessageEvent(m) == [type |-> "message", payload |-> m]
ErrorEvent(msg) == [type |-> "error", error |-> msg]
CloseEvent(reason) == [type |-> "close", reason |-> reason]
EndEvent_Fixed(message) == [type |-> "end", message |-> "done"]
EndEvent(message) == [type |-> "end", message |-> message]

\* The argument each terminal handler passes to closeWith.
EndMessage_Kind(kind) == kind
EndMessage(kind) ==
  CASE kind = "onmessage" -> "turn_complete"
    [] kind = "onerror"   -> "error"
    [] kind = "onclose"   -> "closed"

\* Does the handler go on to closeWith after its first write?
Terminal_EveryMessage(h) == h.kind \in {"onerror", "onclose", "onmessage"}
Terminal(h) == h.kind \in {"onerror", "onclose"} \/ (h.kind = "onmessage" /\ h.tc)

\* Does the handler call session.close() before closeWith?
ClosesSession_OnlyTurnComplete(h) == h.kind = "onmessage" /\ h.tc
ClosesSession(h) == h.kind = "onerror" \/ (h.kind = "onmessage" /\ h.tc)

Chunk_BlankPayload(ev, h, isEnd) ==
  [frame |-> sseEvent(IF ev.type = "message"
                        THEN [type |-> "message",
                              payload |-> [text |-> "", turnComplete |-> FALSE]]
                        ELSE ev),
   h |-> h, isEnd |-> isEnd]
Chunk(ev, h, isEnd) == [frame |-> sseEvent(ev), h |-> h, isEnd |-> isEnd]

FrameType(c) == c.frame.json.type

\* ---------------------------------------------------------------------------
\* The text of a frame.  A text is a sequence of characters; the words the
\* encoder itself emits (data:, null, key and type names) are single items,
\* every character of a string value is an item of its own.

\* Longest string value encoded.
MaxStr == 2

Chars == {"a", "n", " ", "\n", "\"", "\\"}
Texts == SeqsUpTo(Chars, MaxStr)

\* JavaScript values: a string, null, undefined, or an object with its
\* members in insertion order.
JStr(t) == [tag |-> "string", s |-> t, members |-> << >>]
JNull == [tag |-> "null", s |-> << >>, members |-> << >>]
JUndefined == [tag |-> "undefined", s |-> << >>, members |-> << >>]
JObj(members) == [tag |-> "object", s |-> << >>, members |-> members]
Member(k, v) == [k |-> << k >>, v |-> v]

\* Values a payload or an end message can be.
JValues ==
  { JStr(t) : t \in Texts } \cup {JNull, JUndefined}
    \cup { JObj(<< Member("text", JStr(t)) >>) : t \in Texts }

\* The five event shapes of GeminiSSEEvent.
SseOpen == JObj(<< Member("type", JStr(<< "open" >>)) >>)
SseEvent(type, field, v) ==
  JObj(<< Member("type", JStr(<< type >>)), Member(field, v) >>)
SseEvents ==
  {SseOpen}
    \cup { SseEvent("message", "payload", v) : v \in JValues }
    \cup { SseEvent("error", "error", JStr(t)) : t \in Texts }
    \cup { SseEvent("close", "reason", JStr(t)) : t \in Texts }
    \cup { SseEvent("end", "message", v) : v \in JValues }

\* JSON.stringify of a string: quotes around the escaped characters.
RECURSIVE escape(_)
escape_None(t) == t
escape(t) ==
  IF t = << >>
    THEN << >>
    ELSE (CASE Head(t) = "\"" -> << "\\", "\"" >>
            [] Head(t) = "\\" -> << "\\", "\\" >>
            [] Head(t) = "\n" -> << "\\", "n" >>
            [] OTHER -> << Head(t) >>) \o escape(Tail(t))

quote(t) == << "\"" >> \o escape(t) \o << "\"" >>

\* JSON.stringify: a member whose value is undefined is left out.
RECURSIVE JSONstringify(_)
RECURSIVE stringifyMembers(_, _)
stringifyMembers(ms, first) ==
  IF ms = << >>
    THEN << >>
    ELSE IF Head(ms).v.tag = "undefined"
      THEN stringifyMembers(Tail(ms), first)
      ELSE (IF first THEN << >> ELSE << "," >>)
             \o quote(Head(ms).k) \o << ":" >> \o JSONstringify(Head(ms).v)
             \o stringifyMembers(Tail(ms), FALSE)
JSONstringify(v) ==
  CASE v.tag = "string" -> quote(v.s)
    [] v.tag = "null" -> << "null" >>
    [] v.tag = "object" -> << "{" >> \o stringifyMembers(v.members, TRUE) \o << "}" >>
    [] OTHER -> << >>

\* sseEvent as text: `data: ${JSON.stringify(data)}\n\n`
sseEventText(data) == << "data:", " " >> \o JSONstringify(data) \o << "\n", "\n" >>

\* JSON.parse from position i: the value and the position after it, or a
\* failure.  A string ends at the first quote that is not escaped; a line
\* feed inside a string is a syntax error.
Failure == [ok |-> FALSE, v |-> JNull, next |-> 0]
RECURSIVE parseString(_, _, _)
parseString(t, i, acc) ==
  IF i > Len(t)
    THEN Failure
    ELSE CASE t[i] = "\"" -> [ok |-> TRUE, v |-> JStr(acc), next |-> i + 1]
           [] t[i] = "\n" -> Failure
           [] t[i] = "\\" ->
                IF i + 1 > Len(t)
                  THEN Failure
                  ELSE CASE t[i + 1] = "\"" -> parseString(t, i + 2, Append(acc, "\""))
                         [] t[i + 1] = "\\" -> parseString(t, i + 2, Append(acc, "\\"))
                         [] t[i + 1] = "n" -> parseString(t, i + 2, Append(acc, "\n"))
                         [] OTHER -> Failure
           [] OTHER -> parseString(t, i + 1, Append(acc, t[i]))

RECURSIVE parseValue(_, _)
RECURSIVE parseMembers(_, _, _)
parseMembers(t, i, acc) ==
  IF i > Len(t) \/ t[i] # "\""
    THEN Failure
    ELSE LET k == parseString(t, i + 1, << >>)
         IN IF ~k.ok \/ k.next > Len(t) \/ t[k.next] # ":"
              THEN Failure
              ELSE LET v == parseValue(t, k.next + 1)
                       ms == Append(acc, [k |-> k.v.s, v |-> v.v])
                   IN IF ~v.ok \/ v.next > Len(t)
                        THEN Failure
                        ELSE CASE t[v.next] = "," -> parseMembers(t, v.next + 1, ms)
                               [] t[v.next] = "}" ->
                                    [ok |-> TRUE, v |-> JObj(ms), next |-> v.next + 1]
                               [] OTHER -> Failure
parseValue(t, i) ==
  IF i > Len(t)
    THEN Failure
    ELSE CASE t[i] = "\"" -> parseString(t, i + 1, << >>)
           [] t[i] = "null" -> [ok |-> TRUE, v |-> JNull, next |-> i + 1]
           [] t[i] = "{" ->
                IF i + 1 <= Len(t) /\ t[i + 1] = "}"
                  THEN [ok |-> TRUE, v |-> JObj(<< >>), next |-> i + 2]
                  ELSE parseMembers(t, i + 1, << >>)
           [] OTHER -> Failure

\* JSON.parse of a whole text: the text must end where the value ends.
JSONparse(t) ==
  LET r == parseValue(t, 1)
  IN IF r.ok /\ r.next = Len(t) + 1 THEN r ELSE Failure

IsSpace(c) == c \in {" ", "\n"}

\* chunk.trim()
trimText(t) ==
  LET solid == { i \in DOMAIN t : ~IsSpace(t[i]) }
  IN IF solid = {}
       THEN << >>
       ELSE SubSeq(t, CHOOSE i \in solid : \A j \in solid : i <= j,
                      CHOOSE i \in solid : \A j \in solid : i >= j)

\* chunk.replace(/^data:\s*/, "") of a chunk that starts with data:
stripData(chunk) ==
  LET solid == { i \in 2..Len(chunk) : ~IsSpace(chunk[i]) }
  IN IF solid = {}
       THEN << >>
       ELSE SubSeq(chunk, CHOOSE i \in solid : \A j \in solid : i <= j, Len(chunk))

\* buffer.indexOf("\n\n"), 0 when there is none
indexOf(buffer) ==
  LET found == { i \in 1..(Len(buffer) - 1) : buffer[i] = "\n" /\ buffer[i + 1] = "\n" }
  IN IF found = {} THEN 0 ELSE CHOOSE i \in found : \A j \in found : i <= j

\* readSSE on a buffer: each chunk up to a blank line is trimmed; a chunk
\* that starts with data: is stripped of the prefix and parsed, a parse error
\* is ignored.  The result is the events pushed, the number of chunks cut and
\* the text left in the buffer.
RECURSIVE readSSE(_, _, _)
readSSE(buffer, events, chunks) ==
  LET idx == indexOf(buffer)
  IN IF idx = 0
       THEN [read |-> TRUE, events |-> events, chunks |-> chunks, rest |-> buffer]
       ELSE LET chunk == trimText(SubSeq(buffer, 1, idx - 1))
                rest == SubSeq(buffer, idx + 2, Len(buffer))
                r == JSONparse(stripData(chunk))
            IN IF chunk # << >> /\ chunk[1] = "data:" /\ r.ok
                 THEN readSSE(rest, Append(events, r.v), chunks + 1)
                 ELSE readSSE(rest, events, chunks + 1)

NothingRead == [read |-> FALSE, events |-> << >>, chunks |-> 0, rest |-> << >>]

\* What the handler has created so far: nothing at entry; one more byte
\* stream at new TransformStream(), one more session at ai.live.connect().
NoCalls == [stream |-> 0, connect |-> 0]
newTransformStream(c) == [c EXCEPT !.stream = @ + 1]
liveConnect_Twice(c) == [c EXCEPT !.connect = @ + 2]
liveConnect(c) == [c EXCEPT !.connect = @ + 1]

\* ---------------------------------------------------------------------------
InitBridge ==
  /\ turns = << >>
  /\ model = Absent
  /\ sentTurns = << >>
  /\ body = ""
  /\ hpc = "start"
  /\ status = 0
  /\ session = FALSE
  /\ sent = 0
  /\ listener = FALSE
  /\ aborted = FALSE
  /\ closeCalls = 0
  /\ rphase = "idle"
  /\ wstate = "none"
  /\ closeQueued = FALSE
  /\ queue = << >>
  /\ frames = << >>
  /\ handlers = << >>
  /\ headers = NoHeaders
  /\ calls = NoCalls

\* No event is being encoded.
InitEncode ==
  /\ evt = SseOpen
  /\ wire = << >>
  /\ decoded = NothingRead

\* The CORS environment and the origin of the CORS tests.
InitTestCors ==
  /\ cors = TestCors
  /\ origin = OriginA

\* The test request under each environment, and the health request to each
\* copy of GET; the copies differ in the health branch only, so every other
\* request is served by the first.
Init ==
  /\ method \in Methods
  /\ env \in Envs
  /\ req \in TestRequests(method)
  /\ health \in (IF method = "GET" THEN HealthParams ELSE {""})
  /\ variant \in (IF isHealthCheck(method, health) THEN Variants ELSE {"probing"})
  /\ InitTestCors
  /\ InitEncode
  /\ InitBridge

\* Every request shape under each environment.
InitRequests ==
  /\ method \in Methods
  /\ env \in Envs
  /\ req \in Requests(method)
  /\ health = ""
  /\ variant = "probing"
  /\ InitTestCors
  /\ InitEncode
  /\ InitBridge

\* ---------------------------------------------------------------------------
\* The request handler (POST and GET share the bridge)

\* createGenAI throws: the handler answers 500 before anything else.
InitFails ==
  /\ hpc = "start"
  /\ method \in Methods
  /\ ~createGenAI(env)
  /\ hpc' = "done"
  /\ status' = errorResponse(createGenAIError(env)).status
  /\ body' = errorResponse(createGenAIError(env)).body
  /\ headers' = initErrorHeaders(method, cors, origin)
  /\ UNCHANGED << reqVars, method, env, cfgVars, calls, encVars, session, sent, listener, aborted, closeCalls,
                  rphase, wstate, closeQueued, queue, frames, handlers >>

\* POST: the body parses to null and the destructuring throws; the outer
\* catch answers 500.
PostBodyThrows ==
  /\ hpc = "start"
  /\ createGenAI(env)
  /\ method = "POST"
  /\ postBodyThrows(req)
  /\ hpc' = "done"
  /\ status' = errorResponse(DestructureMessage).status
  /\ body' = errorResponse(DestructureMessage).body
  /\ headers' = errorHeaders(cors, origin)
  /\ UNCHANGED << reqVars, method, env, cfgVars, calls, encVars, session, sent, listener, aborted,
                  closeCalls, rphase, wstate, closeQueued, queue, frames,
                  handlers >>

\* Client created, request read, model and turns computed, TransformStream
\* and writer created, ai.live.connect called; the handler suspends on the
\* connect promise.
StartConnect ==
  /\ hpc = "start"
  /\ createGenAI(env)
  /\ ~(method = "POST" /\ postBodyThrows(req))
  /\ ~isHealthCheck(method, health)
  /\ method \in Methods
  /\ model' = normalizeModel(method, req)
  /\ turns' = normalizeTurns(method, req)
  /\ hpc' = "connecting"
  /\ rphase' = "connecting"
  /\ wstate' = "writable"
  /\ calls' = liveConnect(newTransformStream(calls))
  /\ UNCHANGED << req, sentTurns, body, method, env, cfgVars, encVars, headers, status, session, sent, listener, aborted,
                  closeCalls, closeQueued, queue, frames, handlers >>

\* connect rejects: the outer catch answers 500.
ConnectRejects ==
  /\ hpc = "connecting"
  /\ hpc' = "done"
  /\ \E msg \in ConnectErrors :
       /\ status' = errorResponse(msg).status
       /\ body' = errorResponse(msg).body
  /\ headers' = errorHeaders(cors, origin)
  /\ UNCHANGED << reqVars, method, env, cfgVars, calls, encVars, session, sent, listener, aborted, closeCalls,
                  rphase, wstate, closeQueued, queue, frames, handlers >>

\* connect resolves: session is assigned, sendClientContent is called, the
\* abort listener is registered and the streaming response is returned, all
\* without an await in between.  sendClientContent may throw (outer catch).
ConnectResolves ==
  /\ hpc = "connecting"
  /\ session' = TRUE
  /\ sent' = sent + 1
  /\ sentTurns' = turns
  /\ \/ \E msg \in SendErrors :
          /\ hpc' = "done"
          /\ status' = errorResponse(msg).status
          /\ body' = errorResponse(msg).body
          /\ headers' = errorHeaders(cors, origin)
          /\ listener' = listener
     \/ /\ hpc' = "streaming"
        /\ status' = streamResponse.status
        /\ body' = streamResponse.body
        /\ headers' = streamHeaders(cors, origin)
        /\ listener' = TRUE
  /\ UNCHANGED << req, turns, model, method, env, cfgVars, calls, encVars, aborted, closeCalls, rphase, wstate,
                  closeQueued, queue, frames, handlers >>

\* GET ?health=1, the client created: the handler answers from the health
\* branch and goes no further.
Health ==
  /\ hpc = "start"
  /\ createGenAI(env)
  /\ isHealthCheck(method, health)
  /\ hpc' = "done"
  /\ \E r \in healthCheck(variant, env) :
       /\ status' = r.status
       /\ body' = r.body
       /\ headers' = IF r.status = 500
                       THEN withContentType(corsHeaders(cors, origin), Json)
                       ELSE corsHeaders(cors, origin)
  /\ UNCHANGED << reqVars, method, env, cfgVars, calls, encVars, session, sent, listener, aborted,
                  closeCalls, rphase, wstate, closeQueued, queue, frames, handlers >>

\* OPTIONS: the preflight answer.
Options ==
  /\ hpc = "start"
  /\ method = "OPTIONS"
  /\ hpc' = "done"
  /\ status' = noContent.status
  /\ body' = noContent.body
  /\ headers' = corsHeaders(cors, origin)
  /\ UNCHANGED << reqVars, method, env, cfgVars, calls, encVars, session, sent, listener, aborted,
                  closeCalls, rphase, wstate, closeQueued, queue, frames, handlers >>

\* ---------------------------------------------------------------------------
\* Callbacks invoked by the remote.  Each handler starts with
\* `await writer.write(sseEvent(...))`: the write is issued synchronously.
\* The remote invokes onopen first and onclose last, as a socket does.

RemoteCalls == { i \in DOMAIN handlers : handlers[i].kind # "closeWith" }
DirectCalls == { i \in DOMAIN handlers : handlers[i].kind = "closeWith" }

Handler(kind, tc, ev, pc) ==
  [kind |-> kind, tc |-> tc, ev |-> ev, pc |-> pc,
   at |-> Len(frames), early |-> ~session]

Invoke(kind, tc, ev) ==
  /\ Cardinality(RemoteCalls) < MaxCalls
  /\ LET h == Len(handlers) + 1
         ok == WriterAccepts(wstate, closeQueued)
     IN /\ handlers' = Append(handlers,
                         Handler(kind, tc, ev, IF ok THEN "awaitWrite" ELSE "rejected"))
        /\ queue' = IF ok THEN WriterEnqueue(queue, Chunk(ev, h, FALSE)) ELSE queue

OnOpen ==
  /\ rphase = "connecting"
  /\ rphase' = "open"
  /\ Invoke("onopen", FALSE, OpenEvent)
  /\ UNCHANGED << reqVars, body, method, env, cfgVars, calls, encVars, headers, hpc, status, session, sent, listener, aborted,
                  closeCalls, wstate, closeQueued, frames >>

OnMessage ==
  /\ rphase = "open"
  /\ \E m \in Messages : Invoke("onmessage", turnComplete(m), MessageEvent(m))
  /\ UNCHANGED << reqVars, body, method, env, cfgVars, calls, encVars, headers, hpc, status, session, sent, listener, aborted,
                  closeCalls, rphase, wstate, closeQueued, frames >>

OnError ==
  /\ rphase = "open"
  /\ \E msg \in ErrorMessages : Invoke("onerror", FALSE, ErrorEvent(msg))
  /\ UNCHANGED << reqVars, body, method, env, cfgVars, calls, encVars, headers, hpc, status, session, sent, listener, aborted,
                  closeCalls, rphase, wstate, closeQueued, frames >>

OnClose ==
  /\ rphase = "open"
  /\ rphase' = "closed"
  /\ \E r \in CloseReasons : Invoke("onclose", FALSE, CloseEvent(r))
  /\ UNCHANGED << reqVars, body, method, env, cfgVars, calls, encVars, headers, hpc, status, session, sent, listener, aborted,
                  closeCalls, wstate, closeQueued, frames >>

\* ---------------------------------------------------------------------------
\* closeWith, up to its first suspension.  With a truthy message it issues the
\* write of the end frame and awaits it; a rejected write is ignored.  Then it
\* issues writer.close() and awaits it; a rejected close is ignored.
\* The result is the queue, the close-queued flag and the position of the
\* handler that called closeWith.

writerClose_Never(q, ws, cq) == [queue |-> q, closeQueued |-> cq, pc |-> "done"]
writerClose(q, ws, cq) ==
  IF ws = "writable" /\ ~cq
    THEN [queue |-> q, closeQueued |-> TRUE, pc |-> "awaitClose"]
    ELSE [queue |-> q, closeQueued |-> cq, pc |-> "done"]

closeWith(message, h, q, ws, cq) ==
  IF message # "" /\ WriterAccepts(ws, cq)
    THEN [queue |-> WriterEnqueue(q, Chunk(EndEvent(message), h, TRUE)),
          closeQueued |-> cq, pc |-> "awaitEnd"]
    ELSE writerClose(q, ws, cq)

\* session.close() inside try/catch: counted when `session` is assigned, a
\* ReferenceError swallowed by the catch when it is not.
sessionClose_Never(n) == n
sessionClose(n) == IF session THEN n + 1 ELSE n

\* The abort listener: session.close() inside try/catch and nothing else
\* ("Writer will be closed by onclose callback").  The result is the number
\* of close calls, the queue and the close-queued flag.
abortListener_ClosesWriter(n, q, ws, cq) ==
  [closeCalls |-> sessionClose(n),
   queue |-> writerClose(q, ws, cq).queue,
   closeQueued |-> writerClose(q, ws, cq).closeQueued]
abortListener(n, q, ws, cq) ==
  [closeCalls |-> sessionClose(n), queue |-> q, closeQueued |-> cq]

\* req.signal fires.  A registered listener runs; an abort that fires before
\* addEventListener ran reaches no listener.
Abort ==
  /\ ~aborted
  /\ hpc \in {"start", "connecting", "streaming"}
  /\ aborted' = TRUE
  /\ LET r == IF listener
                THEN abortListener(closeCalls, queue, wstate, closeQueued)
                ELSE [closeCalls |-> closeCalls, queue |-> queue,
                      closeQueued |-> closeQueued]
     IN /\ closeCalls' = r.closeCalls
        /\ queue' = r.queue
        /\ closeQueued' = r.closeQueued
  /\ UNCHANGED << reqVars, body, method, env, cfgVars, calls, encVars, headers, hpc, status, session, sent,
                  listener, rphase, wstate, frames, handlers >>

\* stream.readable is handed to a consumer only as the body of the 200
\* response; with a readable high-water mark of 0 nothing leaves the
\* writable queue before a consumer reads.
ReaderAttached_Always(p) == p # "start"
ReaderAttached(p) == p = "streaming"

\* The stream moves the head chunk to the readable side (the consumer of the
\* response body reads), the write promise of that chunk resolves and the
\* handler awaiting it runs to its next await.
Deliver ==
  /\ ReaderAttached(hpc)
  /\ wstate = "writable"
  /\ queue # << >>
  /\ LET c == Head(queue)
         h == handlers[c.h]
         rest == Tail(queue)
         r == IF c.isEnd
                THEN writerClose(rest, wstate, closeQueued)
                ELSE IF Terminal(h)
                  THEN closeWith(EndMessage(h.kind), c.h, rest, wstate, closeQueued)
                  ELSE [queue |-> rest, closeQueued |-> closeQueued, pc |-> "done"]
     IN /\ frames' = Append(frames, c)
        /\ closeCalls' = IF ~c.isEnd /\ ClosesSession(h)
                           THEN sessionClose(closeCalls) ELSE closeCalls
        /\ queue' = r.queue
        /\ closeQueued' = r.closeQueued
        /\ handlers' = [handlers EXCEPT ![c.h].pc = r.pc]
  /\ UNCHANGED << reqVars, body, method, env, cfgVars, calls, encVars, headers, hpc, status, session, sent, listener, aborted,
                  rphase, wstate >>

\* The queued close is processed once every chunk before it was written.
StreamClose ==
  /\ wstate = "writable"
  /\ closeQueued
  /\ queue = << >>
  /\ wstate' = "closed"
  /\ closeQueued' = FALSE
  /\ handlers' = [i \in DOMAIN handlers |->
                    IF handlers[i].pc = "awaitClose"
                      THEN [handlers[i] EXCEPT !.pc = "done"]
                      ELSE handlers[i]]
  /\ UNCHANGED << reqVars, body, method, env, cfgVars, calls, encVars, headers, hpc, status, session, sent, listener, aborted,
                  closeCalls, rphase, queue, frames >>

Next ==
  \/ InitFails
  \/ PostBodyThrows
  \/ StartConnect
  \/ ConnectRejects
  \/ ConnectResolves
  \/ Health
  \/ Abort
  \/ OnOpen
  \/ OnMessage
  \/ OnError
  \/ OnClose
  \/ Deliver
  \/ StreamClose

Spec == Init /\ [][Next]_vars

\* The bridge's own steps are taken when enabled: the handler runs, a reading
\* consumer drains the queue, a queued close completes.  Nothing obliges the
\* remote to call back or the client to abort.
FairSpec ==
  /\ Spec
  /\ WF_vars(InitFails \/ StartConnect)
  /\ WF_vars(Deliver)
  /\ WF_vars(StreamClose)

\* The same in API-key mode only, the mode of the test suite; the bridge does
\* not read the environment once the client is created.
InitKeyMode == Init /\ ~env.useVertex

FairSpecKeyMode ==
  /\ InitKeyMode
  /\ [][Next]_vars
  /\ WF_vars(InitFails \/ StartConnect)
  /\ WF_vars(Deliver)
  /\ WF_vars(StreamClose)

\* The same with a client that reads until it aborts and not after: the
\* abort signal fires because the client is gone.
FairSpecClientGone ==
  /\ InitKeyMode
  /\ [][Next]_vars
  /\ WF_vars(InitFails \/ StartConnect)
  /\ WF_vars(Deliver /\ ~aborted)
  /\ WF_vars(StreamClose)

\* Has some invocation of closeWith run to completion?
CloseWithCompleted ==
  \E i \in DOMAIN handlers :
    /\ handlers[i].pc = "done"
    /\ handlers[i].kind = "closeWith" \/ Terminal(handlers[i])

\* closeWith invoked once more after an invocation has completed, as a caller
\* holding the closure could, with a truthy message or with none.
InvokeCloseWith ==
  /\ wstate # "none"
  /\ CloseWithCompleted
  /\ Cardinality(DirectCalls) < MaxFinalize
  /\ \E message \in {"direct", ""} :
       LET h == Len(handlers) + 1
           r == closeWith(message, h, queue, wstate, closeQueued)
       IN /\ handlers' = Append(handlers,
                           Handler("closeWith", FALSE, EndEvent(message), r.pc))
          /\ queue' = r.queue
          /\ closeQueued' = r.closeQueued
  /\ UNCHANGED << reqVars, body, method, env, cfgVars, calls, encVars, headers, hpc, status, session, sent, listener, aborted,
                  closeCalls, rphase, wstate, frames >>

NextFinalize ==
  \/ InitFails
  \/ PostBodyThrows
  \/ StartConnect
  \/ ConnectRejects
  \/ ConnectResolves
  \/ Health
  \/ Abort
  \/ OnOpen
  \/ OnMessage
  \/ OnError
  \/ OnClose
  \/ Deliver
  \/ StreamClose
  \/ InvokeCloseWith

SpecFinalize == Init /\ [][NextFinalize]_vars

\* The request handler alone, over every request shape: from the request to
\* the response, the remote staying silent.
NextRequests ==
  \/ InitFails
  \/ PostBodyThrows
  \/ StartConnect
  \/ ConnectRejects
  \/ ConnectResolves

SpecRequests == InitRequests /\ [][NextRequests]_vars

\* The request handler under every setting of the variables createGenAI
\* reads.
InitEnv ==
  /\ method \in Methods
  /\ env \in { readEnv(p) : p \in ProcessEnvs }
  /\ req \in TestRequests(method)
  /\ health = ""
  /\ variant = "probing"
  /\ InitTestCors
  /\ InitEncode
  /\ InitBridge

SpecEnv == InitEnv /\ [][NextRequests]_vars

\* The three handlers under every CORS environment and request origin, from
\* the request to the response.
InitCors ==
  /\ method \in Methods \cup {"OPTIONS"}
  /\ env \in Envs
  /\ req \in TestRequests(method)
  /\ health \in (IF method = "GET" THEN HealthParams ELSE {""})
  /\ variant \in (IF isHealthCheck(method, health) THEN Variants ELSE {"probing"})
  /\ cors \in CorsEnvs
  /\ origin \in Origins
  /\ InitEncode
  /\ InitBridge

NextCors ==
  \/ Options
  \/ InitFails
  \/ PostBodyThrows
  \/ StartConnect
  \/ ConnectRejects
  \/ ConnectResolves
  \/ Health

SpecCors == InitCors /\ [][NextCors]_vars

\* sseEvent applied to each event value and its text read back by readSSE;
\* no request is served.
InitEvents ==
  /\ method = "POST"
  /\ env \in { e \in Envs : createGenAI(e) /\ ~e.useVertex }
  /\ req \in TestRequests(method)
  /\ health = ""
  /\ variant = "probing"
  /\ InitTestCors
  /\ evt \in SseEvents
  /\ wire = << >>
  /\ decoded = NothingRead
  /\ InitBridge

Encode ==
  /\ wire = << >>
  /\ wire' = sseEventText(evt)
  /\ UNCHANGED << reqVars, body, method, env, cfgVars, calls, headers, hpc, status, session, sent,
                  listener, aborted, closeCalls, rphase, wstate, closeQueued, queue,
                  frames, handlers, evt, decoded >>

Read ==
  /\ wire # << >>
  /\ ~decoded.read
  /\ decoded' = readSSE(wire, << >>, 0)
  /\ UNCHANGED << reqVars, body, method, env, cfgVars, calls, headers, hpc, status, session, sent,
                  listener, aborted, closeCalls, rphase, wstate, closeQueued, queue,
                  frames, handlers, evt, wire >>

NextEvents ==
  \/ Encode
  \/ Read

SpecEvents == InitEvents /\ [][NextEvents]_vars

\* ---------------------------------------------------------------------------
\* Properties

\* The event types the client has read, in order.
Types == [i \in DOMAIN frames |-> FrameType(frames[i])]

EndFrames == { i \in DOMAIN frames : FrameType(frames[i]) = "end" }

\* The remote made exactly the calls `kinds`, back to back after the response
\* was returned and before the client read anything, and the client then read
\* the body to the end of the stream.
ScriptedRun(kinds) ==
  /\ hpc = "streaming"
  /\ wstate = "closed"
  /\ ~aborted
  /\ Len(handlers) = Len(kinds)
  /\ \A i \in DOMAIN handlers :
       /\ handlers[i].kind = kinds[i]
       /\ handlers[i].at = 0
       /\ ~handlers[i].early

\* C1: at most one `end` frame is ever written to the byte stream of a request.
C1_AtMostOneEnd == Cardinality(EndFrames) <= 1

\* C2: once an `end` frame has been written, no frame of any type follows it.
C2_NothingAfterEnd == \A i \in EndFrames : i = Len(frames)

\* C3: for the calls onopen, onmessage (no completion marker), onmessage
\* (turnComplete), onclose made back to back, the client reads exactly
\* open, message, message, end, and the end frame's message is "turn_complete".
C3_HappyPathFrames ==
  ( /\ ScriptedRun(<< "onopen", "onmessage", "onmessage", "onclose" >>)
    /\ ~handlers[2].tc
    /\ handlers[3].tc )
  => /\ Types = << "open", "message", "message", "end" >>
     /\ frames[4].frame.json.message = "turn_complete"

\* C4: for the calls onopen, onerror, onclose made back to back, the client
\* reads exactly open, error, close, end, with a single end frame whose
\* message is "error".
C4_ErrorPathFrames ==
  ScriptedRun(<< "onopen", "onerror", "onclose" >>)
  => /\ Types = << "open", "error", "close", "end" >>
     /\ frames[4].frame.json.message = "error"

C6_ArrivalOrder ==
  \A i, j \in DOMAIN frames : i < j => frames[i].h <= frames[j].h

\* C7: the bridge invokes close on the session handle at most once per request.
C7_CloseAtMostOnce == closeCalls <= 1

\* C8: no callback handler raises or rejects.
C8_NoHandlerRejects == \A i \in DOMAIN handlers : handlers[i].pc # "rejected"

\* C9: an invocation of closeWith made after an earlier invocation has
\* completed writes no frame, raises no error and leaves the byte stream
\* closed (or closing, with the close already queued).
C9_FinalizeIdempotent ==
  [][ ( /\ CloseWithCompleted
        /\ Len(handlers') = Len(handlers) + 1
        /\ handlers'[Len(handlers')].kind = "closeWith" )
      => /\ queue' = queue
         /\ frames' = frames
         /\ handlers'[Len(handlers')].pc = "done"
         /\ wstate' = wstate
         /\ closeQueued' = closeQueued
         /\ wstate = "closed" \/ closeQueued ]_vars

C9_Witness ==
  /\ wstate = "closed"
  /\ Cardinality(EndFrames) = 1
  /\ \E i \in DirectCalls : handlers[i].pc = "done" /\ handlers[i].ev.message = "direct"

\* C10: whenever the abort signal has fired, at any point after the request
\* was received, the session handle opened for the request (the one behind the
\* streaming response) is eventually closed by the bridge.
C10_AbortClosesSession == (aborted /\ hpc = "streaming") ~> (closeCalls > 0)

\* C11: the abort step only closes the session handle: it writes no frame and
\* does not close the writer, so the frames written and the open/closed status
\* of the byte stream are unchanged by it.
C11_AbortLeavesStream ==
  [][ (~aborted /\ aborted')
      => /\ frames' = frames
         /\ queue' = queue
         /\ wstate' = wstate
         /\ closeQueued' = closeQueued ]_vars

\* The listener ran (no handler of this run calls session.close()) while
\* frames were pending on a writable stream.
C11_Witness ==
  /\ aborted
  /\ closeCalls = 1
  /\ \A i \in DOMAIN handlers : ~ClosesSession(handlers[i])
  /\ wstate = "writable"
  /\ ~closeQueued
  /\ frames # << >>
  /\ queue # << >>

\* C12: after any terminal callback (a message carrying turnComplete, onerror
\* or onclose) on a stream whose response was returned, the byte stream is
\* eventually closed, provided the client keeps reading.
C12_TerminalLeadsToClose ==
  ( /\ hpc = "streaming"
    /\ \E i \in DOMAIN handlers : Terminal(handlers[i]) )
  ~> (wstate = "closed")

C12_Witness ==
  /\ wstate = "closed"
  /\ \E i \in DOMAIN handlers : Terminal(handlers[i]) /\ handlers[i].pc = "done"
  /\ EndFrames # {}

\* The handlers that go on to closeWith.
TerminalCalls == { i \in DOMAIN handlers : Terminal(handlers[i]) }

FramesOfType(t) == { i \in DOMAIN frames : FrameType(frames[i]) = t }

\* C13: when the remote signals a fault on an open session and no other
\* terminal callback arrives, the stream carries an `error` frame with the
\* fault's message, then an `end` frame with message "error", and is closed;
\* close was called on the session handle; the HTTP status stays 200.
C13_FaultPath ==
  \A i \in DOMAIN handlers :
    ( /\ TerminalCalls = {i}
      /\ handlers[i].kind = "onerror"
      /\ handlers[i].pc = "done" )
    => /\ wstate = "closed"
       /\ status = 200
       /\ closeCalls >= 1
       /\ \E e \in FramesOfType("error") :
            /\ FramesOfType("error") = {e}
            /\ frames[e].frame.json.error = handlers[i].ev.error
            /\ \E d \in EndFrames :
                 /\ EndFrames = {d}
                 /\ e < d
                 /\ frames[d].frame.json.message = "error"

C13_Witness ==
  /\ wstate = "closed"
  /\ ~aborted
  /\ \E i \in DOMAIN handlers :
       /\ TerminalCalls = {i}
       /\ handlers[i].kind = "onerror"
       /\ handlers[i].pc = "done"
  /\ Types = << "open", "error", "end" >>

\* C14: with no API key set and hosted-identity mode off, POST and GET return
\* HTTP 500 with a JSON body whose error names the missing credential;
\* connect is never called and no SSE frame is written.
C14_MissingCredential ==
  (~env.useVertex /\ ~env.apiKey)
  => /\ hpc \in {"start", "done"}
     /\ hpc = "done" => (status = 500 /\ body = MissingKeyMessage)
     /\ rphase = "idle"
     /\ wstate = "none"
     /\ sent = 0
     /\ queue = << >>
     /\ frames = << >>

C14_Witness ==
  /\ ~env.useVertex
  /\ ~env.apiKey
  /\ env.project
  /\ method = "GET"
  /\ hpc = "done"
  /\ status = 500

\* C15: when connect fails, the handler returns HTTP 500 with a JSON error
\* body, returns no event stream, and no SSE frame reaches the client.
C15_ConnectFailure ==
  (hpc = "done" /\ rphase # "idle" /\ ~session)
  => /\ status = 500
     /\ body \in ConnectErrors
     /\ frames = << >>

\* connect failed after the remote had already invoked callbacks.
C15_Witness ==
  /\ hpc = "done"
  /\ ~session
  /\ status = 500
  /\ Len(queue) >= 2

\* C16: the bridge respects backpressure: the frames accepted from callbacks
\* and not yet consumed by the client never exceed what the stream asks for
\* (its writable high-water mark), however slowly the client reads.
C16_BoundedQueue == Len(queue) <= WritableHighWaterMark

\* The `input` the handler reads from the request.
InputOf == IF method = "POST" THEN postInput(req) ELSE req.input

AllStrings(l) == \A i \in DOMAIN l : l[i].tag = "string"

\* Absent input, the empty string, the empty list.  On GET the input is
\* absent (or an empty list) when no `input` parameter is given, and the
\* empty string is `?input=`.
EmptyInput ==
  IF method = "POST"
    THEN \/ InputOf.tag = "absent"
         \/ InputOf.tag = "string" /\ InputOf.str = ""
         \/ InputOf.tag = "list" /\ InputOf.items = << >>
    ELSE InputOf.items = << >> \/ InputOf.items = << Str("") >>

\* C17: for absent input, the empty string and the empty list, the turns
\* submitted to the session are exactly ["Hello!"], on POST and on GET.
C17_EmptyInputDefault ==
  (hpc = "streaming" /\ EmptyInput) => sentTurns = DefaultTurns

\* Input that is neither absent, a string nor a list of strings.
Malformed ==
  /\ method = "POST"
  /\ \/ req.parsed = "invalid"
     \/ InputOf.tag \in {"null", "number", "object"}
     \/ InputOf.tag = "list" /\ ~AllStrings(InputOf.items)

\* C18: normalisation is total and always yields a non-empty sequence of
\* strings: for every input shape no error is raised, and malformed input
\* yields the single default turn.
C18_TotalNonEmptyStrings ==
  (createGenAI(env) /\ hpc # "start")
  => /\ ~(status = 500 /\ rphase = "idle")
     /\ turns # << >>
     /\ AllStrings(turns)
     /\ Malformed => turns = DefaultTurns

\* C19: for well-formed non-empty input the submitted turns equal the input:
\* a non-empty string s yields [s], a non-empty list of strings yields the
\* same list in the same order.
C19_WellFormedUnchanged ==
  sent = 1
  => /\ (InputOf.tag = "string" /\ InputOf.str # "")
          => sentTurns = << Str(InputOf.str) >>
     /\ (InputOf.tag = "list" /\ InputOf.items # << >> /\ AllStrings(InputOf.items))
          => sentTurns = InputOf.items

C19_Witness ==
  /\ sent = 1
  /\ method = "POST"
  /\ InputOf.tag = "list"
  /\ Len(InputOf.items) = 2
  /\ InputOf.items[1] = Str("hello")
  /\ InputOf.items[2] = Str("bye")
  /\ sentTurns = << Str("hello"), Str("bye") >>

\* A request that both handlers can carry: a list of input strings and an
\* optional model string.
Logical ==
  /\ method = "POST" => req.parsed = "object"
  /\ req.input.tag = "list"
  /\ AllStrings(req.input.items)
  /\ req.model.tag \in {"absent", "string"}

\* C20: for the same logical request, POST with a JSON body and GET with
\* repeated `input` and `model` query parameters pass the same turns and the
\* same model string to the session: what this handler passed is what either
\* handler computes for the request.
C20_PostGetAgree ==
  (hpc = "streaming" /\ Logical)
  => /\ sentTurns = postTurns(req.input)
     /\ sentTurns = getTurns(req.input)
     /\ model = modelOf(req.model)

\* C21: a GET request with health=1 never connects, never sends client
\* content and creates no byte stream; its response is 204 without a body
\* or 500 with a JSON error, in either copy of the GET handler.
C21_HealthNeverConnects ==
  (method = "GET" /\ health = "1") =>
    /\ rphase = "idle"
    /\ ~session
    /\ sent = 0
    /\ wstate = "none"
    /\ queue = << >>
    /\ hpc = "done" =>
         \/ status = 204 /\ body = ""
         \/ status = 500 /\ body # "" /\ headers.contentType = Json

\* The probing copy answered 204 to a health request.
C21_Witness ==
  /\ method = "GET"
  /\ health = "1"
  /\ variant = "probing"
  /\ hpc = "done"
  /\ status = 204

\* C22: no response carries both Access-Control-Allow-Origin: * and
\* Access-Control-Allow-Credentials: true, whatever CORS_ALLOW_ORIGINS and
\* CORS_ALLOW_CREDENTIALS are.
C22_NoWildcardWithCredentials ==
  ~(headers.allowOrigin = "*" /\ headers.allowCredentials = "true")

\* Is the request origin an entry of an explicit allow-list?
OriginListed ==
  /\ origin # ""
  /\ cors.origins.set
  /\ \E i \in DOMAIN cors.origins.parts : cors.origins.parts[i].text = origin

\* C23: every 500 response of POST, the one for a missing credential
\* included, carries the CORS headers computed from the request origin: with
\* the origin in the allow-list, Access-Control-Allow-Origin is the origin
\* and Vary is Origin.
C23_PostErrorsCarryCors ==
  (method = "POST" /\ hpc = "done" /\ status = 500) =>
    /\ headers.allowMethods = "GET,POST,OPTIONS"
    /\ OriginListed => (headers.allowOrigin = origin /\ headers.vary = "Origin")

\* CORS_ALLOW_ORIGINS is unset, blank, "*" or made of blank parts only.
AllowsAll ==
  \/ ~cors.origins.set
  \/ Len(cors.origins.parts) = 1 /\ cors.origins.parts[1].text = "*"
  \/ \A i \in DOMAIN cors.origins.parts : cors.origins.parts[i].text = ""

\* C24: OPTIONS answers 204; with an explicit allow-list the allow-origin
\* header echoes the request origin and Vary: Origin is set exactly when the
\* origin is in the list, and there is no allow-origin header otherwise;
\* with "*", an unset or an empty list the allow-origin header is "*".
C24_Preflight ==
  (method = "OPTIONS" /\ hpc = "done") =>
    /\ status = 204
    /\ body = ""
    /\ IF AllowsAll
         THEN headers.allowOrigin = "*"
         ELSE IF OriginListed
           THEN headers.allowOrigin = origin /\ headers.vary = "Origin"
           ELSE headers.allowOrigin = "" /\ headers.vary = ""

\* A preflight from a listed origin was answered, the list having a second
\* entry.
C24_Witness ==
  /\ method = "OPTIONS"
  /\ hpc = "done"
  /\ ~AllowsAll
  /\ OriginListed
  /\ Len(cors.origins.parts) = 2
  /\ headers.allowOrigin = OriginA

\* The value as a deep comparison sees it: a member whose value is undefined
\* counts as a member that is not there.
RECURSIVE definedMembers(_)
definedMembers(ms) ==
  IF ms = << >>
    THEN << >>
    ELSE IF Head(ms).v.tag = "undefined"
      THEN definedMembers(Tail(ms))
      ELSE << [k |-> Head(ms).k,
               v |-> IF Head(ms).v.tag = "object"
                       THEN JObj(definedMembers(Head(ms).v.members))
                       ELSE Head(ms).v] >> \o definedMembers(Tail(ms))

\* C25: for every event value of the five types, the text sseEvent makes of
\* it is exactly one frame, and cutting at the blank line, stripping the
\* data: prefix and JSON-decoding gives back a value equal to the event.
C25_RoundTrip ==
  decoded.read =>
    /\ decoded.chunks = 1
    /\ decoded.rest = << >>
    /\ decoded.events = << JObj(definedMembers(evt.members)) >>

\* A message whose payload holds a line feed and a quote was read back.
C25_Witness ==
  /\ decoded.read
  /\ evt = SseEvent("message", "payload", JStr(<< "\n", "\"" >>))
  /\ decoded.events = << evt >>

\* Every chunk accepted by the writer so far, in the order written.
Written == frames \o queue

\* C26: on the turn-completion and fault paths the session handle is closed
\* before the `end` frame is written: whenever an `end` frame with message
\* "turn_complete" or "error" is in the stream, close has been called on the
\* session handle, also when the callback fired before connect had resolved.
C26_SessionClosedBeforeEnd ==
  \A i \in DOMAIN Written :
    ( /\ FrameType(Written[i]) = "end"
      /\ Written[i].frame.json.message \in {"turn_complete", "error"} )
    => closeCalls >= 1

\* A turnComplete message arrived before connect had resolved and its
\* handler has written the end frame.
C26_Witness ==
  \E i \in DOMAIN Written :
    /\ FrameType(Written[i]) = "end"
    /\ Written[i].frame.json.message = "turn_complete"
    /\ handlers[Written[i].h].early
    /\ closeCalls >= 1

\* The abort listener has run on a stream no terminal callback has touched,
\* the remote still being open.
AbortedOpen ==
  /\ aborted
  /\ hpc = "streaming"
  /\ rphase = "open"
  /\ closeCalls = 1
  /\ TerminalCalls = {}

\* C27: after a client abort, if the remote then delivers its close
\* callback, the onclose handler closes the writer and the byte stream is
\* eventually closed; and the byte stream is closed by the handler of a
\* terminal callback only, so with no callback delivered it never is.
C27_AbortThenRemoteClose ==
  /\ []((closeQueued \/ wstate = "closed") => TerminalCalls # {})
  /\ [](AbortedOpen => [](rphase = "closed" => <>(wstate = "closed")))

\* C28: when remote closure is the only terminal signal (no completion
\* marker, no fault, no client abort), the stream carries a `close` frame
\* with the remote's reason, then an `end` frame with message "closed", and
\* is closed; the bridge has not called close on the session handle.
C28_RemoteClosurePath ==
  \A i \in DOMAIN handlers :
    ( /\ TerminalCalls = {i}
      /\ handlers[i].kind = "onclose"
      /\ handlers[i].pc = "done"
      /\ ~aborted )
    => /\ wstate = "closed"
       /\ closeCalls = 0
       /\ \E c \in FramesOfType("close") :
            /\ FramesOfType("close") = {c}
            /\ frames[c].frame.json.reason = handlers[i].ev.reason
            /\ \E d \in EndFrames :
                 /\ EndFrames = {d}
                 /\ d = c + 1
                 /\ d = Len(frames)
                 /\ frames[d].frame.json.message = "closed"

\* The remote opened, sent a message and closed; the client read all of it.
C28_Witness ==
  /\ ~aborted
  /\ Len(handlers) = 3
  /\ handlers[3].kind = "onclose"
  /\ handlers[3].pc = "done"
  /\ TerminalCalls = {3}
  /\ wstate = "closed"
  /\ Len(frames) = 4

\* Is h the handler of a message without the completion marker?
PlainMessage(h) == h.kind = "onmessage" /\ ~h.tc

\* C29: a message without the turn-completion marker, arriving on an open
\* stream, changes nothing but the frame list: its handler writes one
\* `message` frame when invoked and nothing when that write has settled; no
\* `end` frame is written, the session handle is not closed and the writer
\* is not closed.
C29_PlainMessageOnlyAppends ==
  [][ /\ ( /\ Len(handlers') = Len(handlers) + 1
            /\ PlainMessage(handlers'[Len(handlers')])
            /\ WriterAccepts(wstate, closeQueued) )
          => /\ Len(queue') = Len(queue) + 1
             /\ SubSeq(queue', 1, Len(queue)) = queue
             /\ queue'[Len(queue')].frame.json = handlers'[Len(handlers')].ev
             /\ FrameType(queue'[Len(queue')]) = "message"
             /\ UNCHANGED << frames, closeCalls, wstate, closeQueued >>
      /\ ( /\ Len(frames') = Len(frames) + 1
            /\ PlainMessage(handlers[frames'[Len(frames')].h]) )
          => /\ frames' = Append(frames, Head(queue))
             /\ queue' = Tail(queue)
             /\ handlers'[Head(queue).h].pc = "done"
             /\ UNCHANGED << closeCalls, wstate, closeQueued >> ]_vars

\* The handler of a plain message has returned and the stream is as open
\* as before: no end frame, no close queued, the session not closed.
C29_Witness ==
  /\ \E i \in DOMAIN handlers : PlainMessage(handlers[i]) /\ handlers[i].pc = "done"
  /\ wstate = "writable"
  /\ ~closeQueued
  /\ closeCalls = 0
  /\ queue = << >>
  /\ \A i \in DOMAIN frames : FrameType(frames[i]) # "end"

\* The onmessage invocations whose write the open stream accepted.
AcceptedMessages ==
  { i \in DOMAIN handlers : handlers[i].kind = "onmessage" /\ handlers[i].pc # "rejected" }

\* The positions of the `message` frames among the chunks written.
MessageFrames == { i \in DOMAIN Written : FrameType(Written[i]) = "message" }

\* C30: each remote message delivered while the stream is open yields
\* exactly one `message` frame whose payload is the delivered message
\* unchanged; the frames are in the order of delivery, none dropped,
\* duplicated, merged or altered; a message carrying turnComplete is itself
\* forwarded before the `end` frame its handler writes.
C30_MessagesForwardedVerbatim ==
  /\ \A i \in AcceptedMessages :
       \E f \in MessageFrames :
         /\ Written[f].h = i
         /\ Written[f].frame.json.payload = handlers[i].ev.payload
         /\ Written[f].frame.json.payload \in Messages
         /\ Written[f].frame.json.payload.turnComplete = handlers[i].tc
  /\ \A f \in MessageFrames : Written[f].h \in AcceptedMessages
  /\ \A f, g \in MessageFrames : f < g => Written[f].h < Written[g].h
  /\ \A d \in DOMAIN Written :
       (Written[d].isEnd /\ handlers[Written[d].h].kind = "onmessage")
         => \E f \in MessageFrames :
              /\ f < d
              /\ Written[f].h = Written[d].h
              /\ turnComplete(Written[f].frame.json.payload)

\* Two messages, the second carrying turnComplete, were forwarded and the
\* end frame followed.
C30_Witness ==
  /\ Cardinality(MessageFrames) = 2
  /\ \E d \in DOMAIN frames :
       /\ frames[d].isEnd
       /\ frames[d].frame.json.message = "turn_complete"
       /\ d = 4
  /\ frames[2].frame.json.payload.text = "hi"

\* C31: each request that reaches the streaming response has called connect
\* exactly once and sendClientContent exactly once, with the normalised
\* turns, and has created one byte stream; sendClientContent is called in
\* the step in which connect resolves, before a response is returned, and
\* never again.
C31_OneSessionOneStream ==
  /\ [](hpc = "streaming"
          => /\ calls.connect = 1
             /\ calls.stream = 1
             /\ sent = 1
             /\ sentTurns = turns
             /\ turns = normalizeTurns(method, req))
  /\ [][ sent' # sent
          => /\ sent' = sent + 1
             /\ hpc = "connecting"
             /\ status = 0
             /\ ~session
             /\ session' ]_vars
  /\ [][ hpc = "streaming" => (sent' = sent /\ calls' = calls) ]_vars

\* The streaming response was returned and the remote has since called back.
C31_Witness ==
  /\ hpc = "streaming"
  /\ sent = 1
  /\ calls.connect = 1
  /\ Len(frames) >= 2

\* The configuration the claim calls sufficient.
Configured ==
  LET p == env.raw
  IN \/ /\ p.GOOGLE_GENAI_USE_VERTEXAI = "true"
        /\ p.GOOGLE_CLOUD_PROJECT # ""
        /\ p.GOOGLE_CLOUD_LOCATION # ""
     \/ /\ p.GOOGLE_GENAI_USE_VERTEXAI # "true"
        /\ (p.GOOGLE_API_KEY # "" \/ p.GEMINI_API_KEY # "")

\* The handler answered with the error createGenAI threw.
InitFailed ==
  /\ hpc = "done"
  /\ status = 500
  /\ body \in {VertexMessage, MissingKeyMessage}

\* C32: client initialisation succeeds exactly when hosted mode is on and
\* project and location are both set, or hosted mode is off and
\* GOOGLE_API_KEY or GEMINI_API_KEY is set; an API key does not make up for
\* a missing project or location in hosted mode; every other configuration
\* fails before the body is parsed and before connect.
C32_InitExactlyWhenConfigured ==
  hpc # "start" =>
    /\ Configured <=> ~InitFailed
    /\ InitFailed =>
         /\ body = (IF env.raw.GOOGLE_GENAI_USE_VERTEXAI = "true"
                      THEN VertexMessage ELSE MissingKeyMessage)
         /\ calls = NoCalls
         /\ rphase = "idle"
         /\ wstate = "none"
         /\ turns = << >>
         /\ model = Absent
         /\ sent = 0

\* Hosted mode with an API key but no location: the handler answered 500
\* although the POST body would have made the destructuring throw.
C32_Witness ==
  /\ InitFailed
  /\ method = "POST"
  /\ postBodyThrows(req)
  /\ env.raw.GOOGLE_GENAI_USE_VERTEXAI = "true"
  /\ env.raw.GOOGLE_CLOUD_PROJECT # ""
  /\ env.raw.GOOGLE_CLOUD_LOCATION = ""
  /\ env.raw.GEMINI_API_KEY # ""

\* The type of the frame each terminal handler writes first.
OwnFrameType(kind) ==
  CASE kind = "onmessage" -> "message"
    [] kind = "onerror"   -> "error"
    [] kind = "onclose"   -> "close"

\* C33: an `end` frame is written only by the handler of a terminal
\* callback and only after that handler's own frame was written:
\* "turn_complete" only after a `message` frame whose payload carried
\* turnComplete, "error" only after an `error` frame, "closed" only after a
\* `close` frame; no other `end` message value appears.
C33_EndOnlyAfterOwnFrame ==
  \A d \in DOMAIN Written :
    FrameType(Written[d]) = "end" =>
      LET h == handlers[Written[d].h]
          m == Written[d].frame.json.message
      IN /\ Written[d].isEnd
         /\ h.kind \in {"onmessage", "onerror", "onclose"}
         /\ Terminal(h)
         /\ m \in {"turn_complete", "error", "closed"}
         /\ m = "turn_complete" <=> h.kind = "onmessage"
         /\ m = "error" <=> h.kind = "onerror"
         /\ m = "closed" <=> h.kind = "onclose"
         /\ \E f \in DOMAIN frames :
              /\ f < d
              /\ frames[f].h = Written[d].h
              /\ ~frames[f].isEnd
              /\ FrameType(frames[f]) = OwnFrameType(h.kind)
              /\ h.kind = "onmessage" => turnComplete(frames[f].frame.json.payload)

\* Two terminal handlers have each written their end frame: "error" and
\* "closed".
C33_Witness ==
  /\ \E d \in DOMAIN Written :
       FrameType(Written[d]) = "end" /\ Written[d].frame.json.message = "error"
  /\ \E d \in DOMAIN Written :
       FrameType(Written[d]) = "end" /\ Written[d].frame.json.message = "closed"

\* C34: whenever a handler returns a 500 response, no session handle opened
\* for the request is left open: a failure after connect has resolved closes
\* the session before the error response is returned.
C34_NoSessionLeftOn500 ==
  (hpc = "done" /\ status = 500 /\ session) => closeCalls >= 1
====
